---- MODULE Spec2Model ----
(***************************************************************************)
(* Model of generate_local_pages.py: the batch driver (main), the CSV      *)
(* file check (validate_csv_file), the slug builder (create_slug), the     *)
(* content renderer (create_page_content) and the run logger               *)
(* (write_to_log).                                                         *)
(*                                                                         *)
(* A string is a sequence of tokens.  A token is one character (" ", "A",  *)
(* "a", "-", ...) or an atomic piece of literal text that the program      *)
(* never splits (a column name, a line of the page template).              *)
(***************************************************************************)
EXTENDS Integers, Sequences, FiniteSets, TLC

\* Largest number of data rows of the CSV file.
MaxRows == 2
\* Largest number of write_to_log calls of one invocation (SpecLogSeq, SpecLogConc).
MaxCalls == 2

VARIABLES
    csv,          \* the CSV file: [exists, headers, rows]
    args,         \* parsed command line: [limit: [given, n], dry_run, publish]
    pc,           \* position of main: "start", "loop", "done"
    lines,        \* main's list of DictReader rows, after --limit
    total_rows,   \* main's total_rows
    i,            \* number of loop iterations completed
    response,     \* what create_wp_page returned for the last row processed
    trace,        \* per processed row: what was printed and done for it
    exit_code,    \* process exit status (-1 while running)
    log_file,     \* output_log.csv: [exists, lines]
    log0,         \* output_log.csv as it was when the run started
    procs,        \* concurrent invocations inside write_to_log
    written,      \* rows handed to write_to_log so far, in call order
    page          \* the content renderer: [state, service, city, ..., content]

batchVars == <<csv, args, pc, lines, total_rows, i, response, trace, exit_code, log0>>
vars == <<csv, args, pc, lines, total_rows, i, response, trace, exit_code,
          log_file, log0, procs, written, page>>

----------------------------------------------------------------------------
(* Strings                                                                 *)

Whitespace == {" ", "\n"}

RECURSIVE LStrip(_)
LStrip(s) == IF s # <<>> /\ Head(s) \in Whitespace THEN LStrip(Tail(s)) ELSE s

RECURSIVE RStrip(_)
RStrip(s) ==
    IF s # <<>> /\ s[Len(s)] \in Whitespace THEN RStrip(SubSeq(s, 1, Len(s) - 1)) ELSE s

\* str.strip()
Strip(s) == RStrip(LStrip(s))

\* sub in s
Contains(s, sub) ==
    \E k \in 0..(Len(s) - Len(sub)) : SubSeq(s, k + 1, k + Len(sub)) = sub

\* str.lower() on the characters the inputs are built from
Lower(c) == CASE c = "A" -> "a" [] c = "B" -> "b" [] OTHER -> c

SlugChars == {"a", "b", "c", "d", "i", "n", "2", "x"}

\* re.sub(r'[^a-z0-9]+', '-', s): every maximal run of other characters
\* becomes one hyphen.  prevOther: the previous character was replaced.
RECURSIVE SubRuns(_, _)
SubRuns(s, prevOther) ==
    IF s = <<>> THEN <<>>
    ELSE IF Head(s) \in SlugChars THEN <<Head(s)>> \o SubRuns(Tail(s), FALSE)
    ELSE IF prevOther THEN SubRuns(Tail(s), TRUE)
    ELSE <<"-">> \o SubRuns(Tail(s), TRUE)

RECURSIVE LStripHyphen(_)
LStripHyphen(s) == IF s # <<>> /\ Head(s) = "-" THEN LStripHyphen(Tail(s)) ELSE s

RECURSIVE RStripHyphen(_)
RStripHyphen(s) ==
    IF s # <<>> /\ s[Len(s)] = "-" THEN RStripHyphen(SubSeq(s, 1, Len(s) - 1)) ELSE s

create_slug(service, neighborhood, city) ==
    LET raw_slug == service \o <<" ", "i", "n", " ">> \o neighborhood \o <<" ">> \o city
        lowered == [k \in 1..Len(raw_slug) |-> Lower(raw_slug[k])]
    IN RStripHyphen(LStripHyphen(SubRuns(lowered, FALSE)))

\* title = f"{service} in {neighborhood}, {city}"
Title(service, neighborhood, city) ==
    service \o <<" ", "i", "n", " ">> \o neighborhood \o <<",", " ">> \o city

----------------------------------------------------------------------------
(* Run logger: write_to_log, step by step                                  *)

NoFile == [exists |-> FALSE, lines |-> <<>>]

\* fieldnames of the DictWriter; writeheader() writes them as one line
HeaderLine == << <<"title">>, <<"slug">>, <<"status">>, <<"url">>, <<"wp_id">>, <<"notes">> >>

\* writer.writerow(log_data): the values in fieldnames order, one line
RowLine(log_data) ==
    <<log_data.title, log_data.slug, log_data.status, log_data.url,
      log_data.wp_id, log_data.notes>>

\* file_exists = os.path.exists(log_file)
PathExists(file) == file.exists

\* a mode that truncates instead of appending
OpenTruncate(file) == [exists |-> TRUE, lines |-> <<>>]

\* open(log_file, 'a', newline=''): creates the file when absent, keeps its content
OpenAppend(file) == [exists |-> TRUE, lines |-> file.lines]

\* writes the header whatever file_exists says
WriteHeaderAlways(buf, file_exists) == buf \o <<HeaderLine>>

\* if not file_exists: writer.writeheader()   (into the file object's buffer)
WriteHeader(buf, file_exists) == IF ~file_exists THEN buf \o <<HeaderLine>> ELSE buf

\* writer.writerow(log_data)                  (into the file object's buffer)
WriteRow(buf, log_data) == buf \o <<RowLine(log_data)>>

\* leaving the with block: the buffer reaches the file in one append
CloseFile(file, buf) == [file EXCEPT !.lines = @ \o buf]

\* one whole call, nothing else running in between
write_to_log(file, log_data) ==
    LET file_exists == PathExists(file)
    IN CloseFile(OpenAppend(file), WriteRow(WriteHeader(<<>>, file_exists), log_data))

\* the data rows of the log, header lines left out
DataRows(file) == SelectSeq(file.lines, LAMBDA l : l # HeaderLine)

----------------------------------------------------------------------------
(* CSV file                                                                *)

None == [none |-> TRUE, s |-> <<>>]
Str(s) == [none |-> FALSE, s |-> s]

service_ == <<"service">>
city_ == <<"city">>
neighborhood_ == <<"neighborhood">>
price_from_ == <<"price_from">>

\* required_columns of validate_csv_file
required_columns == {service_, city_, neighborhood_, price_from_}

\* required_fields of main's row validation
required_fields == {service_, city_, neighborhood_, price_from_}

\* headers_set = set(map(str.strip, headers))
headers_set(headers) == {Strip(headers[k]) : k \in 1..Len(headers)}

\* skips the column check
missing_columns_unchecked(headers) == {}

\* missing_columns = required_columns - headers_set
missing_columns(headers) == required_columns \ headers_set(headers)

\* validate_csv_file raises: FileNotFoundError, "CSV file is empty", or
\* "Missing required columns"
ValidateRaises(f) ==
    \/ ~f.exists
    \/ f.headers = <<>>
    \/ missing_columns(f.headers) # {}

\* One csv.DictReader row: the cells keyed by the header names as written in
\* the file (not stripped); a header with no cell gets None (restval); cells
\* beyond the headers go under the key None, which main never reads.
DictRow(headers, cells) ==
    [h \in {headers[k] : k \in 1..Len(headers)} |->
        LET k == CHOOSE m \in 1..Len(headers) :
                    /\ headers[m] = h
                    /\ \A m2 \in 1..Len(headers) : headers[m2] = h => m2 <= m
        IN IF k <= Len(cells) THEN Str(cells[k]) ELSE None]

\* list(csv.DictReader(file)): the header line is consumed, blank lines are skipped
DictReader(f) ==
    LET data == SelectSeq(f.rows, LAMBDA r : r # <<>>)
    IN [k \in 1..Len(data) |-> DictRow(f.headers, data[k])]

\* row.get(field, '')
Get(row, field) == IF field \in DOMAIN row THEN row[field] ELSE Str(<<>>)

\* lines[:n] of Python: a negative n counts from the end
SliceTo(s, n) ==
    LET stop == IF n >= 0 THEN (IF n < Len(s) THEN n ELSE Len(s))
                ELSE (IF Len(s) + n > 0 THEN Len(s) + n ELSE 0)
    IN SubSeq(s, 1, stop)

Min(a, b) == IF a < b THEN a ELSE b

\* row.get(field, '').strip() raises AttributeError on None
ValidationRaises(row) == \E field \in required_fields : Get(row, field).none

\* the fields main appends to missing_fields
missing_fields(row) ==
    {field \in required_fields : ~Get(row, field).none /\ Strip(Get(row, field).s) = <<>>}

----------------------------------------------------------------------------
(* Publisher client and its responses                                      *)

HTTP_CREATED == 201

\* create_wp_page was not called for the row
NoCall == [called |-> FALSE, none |-> TRUE, status_code |-> 0,
           body |-> [kind |-> "text", keys |-> {}, slug |-> <<>>]]

\* create_wp_page caught a RequestException and returned None
NoResponse == [called |-> TRUE, none |-> TRUE, status_code |-> 0,
               body |-> [kind |-> "text", keys |-> {}, slug |-> <<>>]]

\* the bodies a server may send: not JSON ("text"), JSON that is no object
\* ("array"), or an object with some of the keys; its slug is the one
\* requested or a renamed one
Bodies(slug) ==
    {[kind |-> "text", keys |-> {}, slug |-> <<>>],
     [kind |-> "array", keys |-> {}, slug |-> <<>>]}
    \cup {[kind |-> "object", keys |-> K, slug |-> <<>>] : K \in SUBSET {"id", "link"}}
    \cup {[kind |-> "object", keys |-> K \cup {"slug"}, slug |-> sl] :
            K \in SUBSET {"id", "link"}, sl \in {slug, slug \o <<"-", "2">>}}

\* what create_wp_page may return for a request with this slug
Responses(slug) ==
    {NoResponse}
    \cup {[called |-> TRUE, none |-> FALSE, status_code |-> HTTP_CREATED, body |-> b] :
            b \in Bodies(slug)}
    \cup {[called |-> TRUE, none |-> FALSE, status_code |-> st, body |-> b] :
            st \in {200, 500},
            b \in {[kind |-> "text", keys |-> {}, slug |-> <<>>],
                   [kind |-> "object", keys |-> {"id", "slug", "link"}, slug |-> slug]}}

\* bool(response): None is false, and requests.Response is true when ok
\* (its status is not a 4xx or 5xx)
Truthy(resp) == ~resp.none /\ ~(400 <= resp.status_code /\ resp.status_code < 600)

\* accepts every answer the server gave
IsCreatedAnyStatus(resp) == ~resp.none

\* if response and response.status_code == 201
IsCreated(resp) == Truthy(resp) /\ resp.status_code = HTTP_CREATED

\* response.json() raises on a body that is no JSON; data['id'], data['slug']
\* and data['link'] raise KeyError on a missing key, TypeError on a non-object
BodyRaises(resp) ==
    \/ resp.body.kind # "object"
    \/ ~({"id", "slug", "link"} \subseteq resp.body.keys)

\* the values read from the parsed body
BodyId == <<"7">>
BodyLink(resp) == <<"/">> \o resp.body.slug

StatusOf(publish) == IF publish THEN <<"publish">> ELSE <<"draft">>

\* a note that is always empty
NotesNever(original_slug, remote_slug) == <<>>

\* notes = f"(warning sign) WP changed slug: {original_slug} (arrow) {data['slug']}"
\*         if data['slug'] != original_slug else ""
Notes(original_slug, remote_slug) ==
    IF remote_slug # original_slug
    THEN <<"WP changed slug:", " ">> \o original_slug \o <<" ", "->", " ">> \o remote_slug
    ELSE <<>>

\* the log_data dictionary of main
LogData(title, original_slug, resp, publish) ==
    [title |-> title,
     slug |-> resp.body.slug,
     status |-> StatusOf(publish),
     url |-> BodyLink(resp),
     wp_id |-> BodyId,
     notes |-> Notes(original_slug, resp.body.slug)]

----------------------------------------------------------------------------
(* Batch driver: main                                                      *)

GoodHeader == <<service_, city_, neighborhood_, price_from_>>
\* "service, city,neighborhood,price_from": a space after a comma
PaddedHeader == <<service_, <<" ">> \o city_, neighborhood_, price_from_>>
NoPriceHeader == <<service_, city_, neighborhood_>>
\* no first line, or a blank one: next(csv_reader, None) is falsy
EmptyHeader == <<>>

GoodRow == << <<"A">>, <<" ", "b">>, <<"c">>, <<"d">> >>
OtherRow == << <<"B">>, <<"b">>, <<"c">>, <<"d">> >>
\* city empty, neighborhood only whitespace
BlankRow == << <<"A">>, <<>>, <<" ">>, <<"d">> >>
\* "A,b": a line with fewer cells than the header
ShortRow == << <<"A">>, <<"b">> >>

RowSet == {GoodRow, OtherRow, BlankRow, ShortRow}

RowLists == UNION {[1..n -> RowSet] : n \in 0..MaxRows}

CsvFiles ==
    {[exists |-> FALSE, headers |-> <<>>, rows |-> <<>>],
     [exists |-> TRUE, headers |-> EmptyHeader, rows |-> <<>>]}
    \cup {[exists |-> TRUE, headers |-> h, rows |-> r] :
            h \in {GoodHeader, PaddedHeader, NoPriceHeader}, r \in RowLists}

\* --limit: absent (None) or an integer
Limits ==
    {[given |-> FALSE, n |-> 0]} \cup {[given |-> TRUE, n |-> n] : n \in (-1)..MaxRows}

Args == [limit : Limits, dry_run : BOOLEAN, publish : BOOLEAN]

\* a log left by an earlier run
PriorLog ==
    [exists |-> TRUE,
     lines |-> <<HeaderLine, << <<"x">>, <<"x">>, <<"draft">>, <<"/", "x">>, <<"7">>, <<>> >> >>]

Idle == [state |-> "idle"]

BatchInit ==
    /\ csv \in CsvFiles
    /\ args \in Args
    /\ pc = "start"
    /\ lines = <<>>
    /\ total_rows = 0
    /\ i = 0
    /\ response = NoCall
    /\ trace = <<>>
    /\ exit_code = -1
    /\ log_file \in {NoFile, PriorLog}
    /\ log0 = log_file
    /\ procs = <<>>
    /\ written = <<>>
    /\ page = Idle

\* validate_csv_file raised: main's outer handler prints the error and exits 1
ValidateFails ==
    /\ pc = "start"
    /\ ValidateRaises(csv)
    /\ pc' = "done"
    /\ exit_code' = 1
    /\ UNCHANGED <<csv, args, lines, total_rows, i, response, trace, log_file, log0,
                   procs, written, page>>

\* if args.limit is not None: lines = lines[:args.limit]
LimitLines(all, limit) == IF limit.given THEN SliceTo(all, limit.n) ELSE all

\* total_rows = len(lines); if args.limit is not None: min(args.limit, total_rows)
LimitTotal(all, limit) == IF limit.given THEN Min(limit.n, Len(all)) ELSE Len(all)

ReadCsv ==
    /\ pc = "start"
    /\ ~ValidateRaises(csv)
    /\ lines' = LimitLines(DictReader(csv), args.limit)
    /\ total_rows' = LimitTotal(DictReader(csv), args.limit)
    /\ pc' = "loop"
    /\ UNCHANGED <<csv, args, i, response, trace, exit_code, log_file, log0,
                   procs, written, page>>

\* what is recorded of one loop iteration
Record(row, outcome, missing, calls, slug) ==
    [i |-> i + 1, total |-> total_rows, row |-> row, outcome |-> outcome,
     missing |-> missing, calls |-> calls, slug |-> slug]

\* the exception leaves the loop and reaches main's outer handler
RowExceptionAborts == pc' = "done" /\ exit_code' = 1

\* except Exception as e: print(...); continue
RowExceptionCaught == pc' = pc /\ exit_code' = exit_code

\* the four values of a valid row, stripped
Field(row, field) == Strip(row[field].s)

RowTitle(row) == Title(Field(row, service_), Field(row, neighborhood_), Field(row, city_))
RowSlug(row) == create_slug(Field(row, service_), Field(row, neighborhood_), Field(row, city_))

RowValid(row) == ~ValidationRaises(row) /\ missing_fields(row) = {}

\* row.get(field, '').strip() raised on a None value
RowValidationError ==
    /\ pc = "loop" /\ i < Len(lines)
    /\ ValidationRaises(lines[i + 1])
    /\ trace' = Append(trace, Record(lines[i + 1], "row-error", {}, 0, <<>>))
    /\ response' = NoCall
    /\ i' = i + 1
    /\ RowExceptionCaught
    /\ UNCHANGED <<csv, args, lines, total_rows, log_file, log0, procs, written, page>>

\* if missing_fields: print the warning; continue
RowRejected ==
    /\ pc = "loop" /\ i < Len(lines)
    /\ ~ValidationRaises(lines[i + 1])
    /\ missing_fields(lines[i + 1]) # {}
    /\ trace' = Append(trace, Record(lines[i + 1], "rejected",
                                     missing_fields(lines[i + 1]), 0, <<>>))
    /\ response' = NoCall
    /\ i' = i + 1
    /\ UNCHANGED <<csv, args, pc, lines, total_rows, exit_code, log_file, log0,
                   procs, written, page>>

\* if args.dry_run: print title, slug and preview
RowDryRun ==
    /\ pc = "loop" /\ i < Len(lines)
    /\ RowValid(lines[i + 1])
    /\ args.dry_run
    /\ trace' = Append(trace, Record(lines[i + 1], "dry-run", {}, 0, RowSlug(lines[i + 1])))
    /\ response' = NoCall
    /\ i' = i + 1
    /\ UNCHANGED <<csv, args, pc, lines, total_rows, exit_code, log_file, log0,
                   procs, written, page>>

\* response is 201 and its body has id, slug and link: write_to_log(log_data)
RowPublished ==
    /\ pc = "loop" /\ i < Len(lines)
    /\ RowValid(lines[i + 1])
    /\ ~args.dry_run
    /\ \E resp \in Responses(RowSlug(lines[i + 1])) :
        /\ IsCreated(resp)
        /\ ~BodyRaises(resp)
        /\ response' = resp
        /\ log_file' = write_to_log(log_file,
                LogData(RowTitle(lines[i + 1]), RowSlug(lines[i + 1]), resp, args.publish))
    /\ trace' = Append(trace, Record(lines[i + 1], "published", {}, 1, RowSlug(lines[i + 1])))
    /\ i' = i + 1
    /\ UNCHANGED <<csv, args, pc, lines, total_rows, exit_code, log0, procs, written, page>>

\* else: print("Error creating page: ...")
RowPublishFailed ==
    /\ pc = "loop" /\ i < Len(lines)
    /\ RowValid(lines[i + 1])
    /\ ~args.dry_run
    /\ \E resp \in Responses(RowSlug(lines[i + 1])) :
        /\ ~IsCreated(resp)
        /\ response' = resp
    /\ trace' = Append(trace, Record(lines[i + 1], "publish-failed", {}, 1,
                                     RowSlug(lines[i + 1])))
    /\ i' = i + 1
    /\ UNCHANGED <<csv, args, pc, lines, total_rows, exit_code, log_file, log0,
                   procs, written, page>>

\* response is 201 but response.json() or a data[...] lookup raised
RowResponseError ==
    /\ pc = "loop" /\ i < Len(lines)
    /\ RowValid(lines[i + 1])
    /\ ~args.dry_run
    /\ \E resp \in Responses(RowSlug(lines[i + 1])) :
        /\ IsCreated(resp)
        /\ BodyRaises(resp)
        /\ response' = resp
    /\ trace' = Append(trace, Record(lines[i + 1], "row-error", {}, 1, RowSlug(lines[i + 1])))
    /\ i' = i + 1
    /\ RowExceptionCaught
    /\ UNCHANGED <<csv, args, lines, total_rows, log_file, log0, procs, written, page>>

\* the for loop is exhausted: main returns, the process exits 0
Finish ==
    /\ pc = "loop" /\ i = Len(lines)
    /\ pc' = "done"
    /\ exit_code' = 0
    /\ UNCHANGED <<csv, args, lines, total_rows, i, response, trace, log_file, log0,
                   procs, written, page>>

Next ==
    \/ ValidateFails
    \/ ReadCsv
    \/ RowValidationError
    \/ RowRejected
    \/ RowDryRun
    \/ RowPublished
    \/ RowPublishFailed
    \/ RowResponseError
    \/ Finish

Spec == BatchInit /\ [][Next]_vars

----------------------------------------------------------------------------
(* Properties of the batch driver                                          *)

RequiredNames == {<<"service">>, <<"city">>, <<"neighborhood">>, <<"price_from">>}

\* the header row has no column of this name
HeaderLacks(f) == \A k \in 1..Len(csv.headers) : Strip(csv.headers[k]) # f

\* the file is missing or its header row lacks a required column
FileCheckFails == ~csv.exists \/ \E f \in RequiredNames : HeaderLacks(f)

\* the data rows of the file, as lists of cells
DataCells == SelectSeq(csv.rows, LAMBDA r : r # <<>>)

\* a response with status 201 whose JSON body contains id, slug and link
Created201(resp) ==
    /\ resp.called /\ ~resp.none
    /\ resp.status_code = 201
    /\ resp.body.kind = "object"
    /\ {"id", "slug", "link"} \subseteq resp.body.keys

\* the row went past validation, to rendering
Rendered(rec) ==
    \/ rec.outcome \in {"dry-run", "published", "publish-failed"}
    \/ rec.outcome = "row-error" /\ rec.calls = 1

\* C1: in a run that passed the file-level check, the rows processed so far
\* are the first rows of the working set, in file order, one per loop
\* iteration whatever the outcome of the earlier rows (rejected, non-201,
\* no response, exception); the run ends only after the last row, and then
\* with exit code 0.
C1_EveryRowProcessed ==
    (pc # "start" /\ ~FileCheckFails) =>
        /\ Len(trace) = i
        /\ i <= Len(lines)
        /\ \A k \in 1..i : trace[k].row = lines[k] /\ trace[k].i = k
        /\ pc = "done" => (i = Len(lines) /\ exit_code = 0)

\* a finished run whose first row raised an exception after its create-page
\* call and whose second row was then published
C1_Witness ==
    /\ pc = "done" /\ exit_code = 0
    /\ Len(trace) >= 2
    /\ trace[1].outcome = "row-error" /\ trace[1].calls = 1
    /\ trace[2].outcome = "published"

\* C2: when the CSV file does not exist or its header row lacks a required
\* column, no row is validated, no create-page call is issued, the log is
\* not touched, and the run ends with a non-zero exit code.
C2_AbortBeforeAnyRow ==
    FileCheckFails =>
        /\ pc \in {"start", "done"}
        /\ trace = <<>> /\ i = 0
        /\ response = NoCall
        /\ log_file = log0
        /\ pc = "done" => exit_code > 0

\* an aborted run on a file that has data rows but no price_from column
C2_Witness ==
    /\ pc = "done" /\ exit_code = 1
    /\ csv.exists /\ HeaderLacks(<<"price_from">>) /\ Len(csv.rows) > 0

\* C3: a loop iteration appends a Log Entry if and only if create_wp_page
\* returned a response with status 201 whose JSON body contains id, slug and
\* link; then exactly one data row is appended after the existing lines, and
\* in every other case (rejected, dry-run, no response, non-201, unparseable
\* body, missing key) the log is left unchanged.
C3_LogEntryIffCreated ==
    [][ i' = i + 1 =>
          IF Created201(response')
          THEN /\ Len(DataRows(log_file')) = Len(DataRows(log_file)) + 1
               /\ SubSeq(log_file'.lines, 1, Len(log_file.lines)) = log_file.lines
               /\ log_file'.lines[Len(log_file'.lines)] # HeaderLine
          ELSE log_file' = log_file ]_vars

\* a row was published and its entry is the last line of the log
C3_Witness ==
    /\ i > 0 /\ trace[i].outcome = "published"
    /\ Created201(response)
    /\ Len(DataRows(log_file)) = Len(DataRows(log0)) + 1

\* C4: the number of create-page calls issued for a row is 0 when the run is
\* a dry run or the row is rejected by validation, and exactly 1 for every
\* other row.
C4_CallsPerRow ==
    \A k \in 1..Len(trace) :
        trace[k].calls = IF args.dry_run \/ trace[k].outcome = "rejected" THEN 0 ELSE 1

\* C5: with --limit N on a file of T data rows, at most N rows are
\* processed (none when N is negative) and they are a prefix of the file's
\* rows in order; when 0 <= N exactly min(N, T) are processed; the total
\* announced for each row is the number of rows processed.
C5_LimitPrefix ==
    (pc = "done" /\ exit_code = 0 /\ args.limit.given) =>
        /\ Len(trace) <= (IF args.limit.n >= 0 THEN args.limit.n ELSE 0)
        /\ Len(trace) <= Len(DataCells)
        /\ \A k \in 1..Len(trace) : trace[k].row = DictRow(csv.headers, DataCells[k])
        /\ args.limit.n >= 0 => Len(trace) = Min(args.limit.n, Len(DataCells))
        /\ \A k \in 1..Len(trace) : trace[k].total = Len(trace)

\* the required fields whose cell in the row is absent or empty once trimmed
CellsMissing(cells) ==
    {f \in RequiredNames :
        \A k \in 1..Len(csv.headers) :
            Strip(csv.headers[k]) = f => (k > Len(cells) \/ Strip(cells[k]) = <<>>)}

\* C6: for every row of an accepted file the fields reported missing are
\* exactly the required fields whose cell is absent or empty after trimming;
\* the row is rejected (no call, no log entry) when there is one and goes on
\* to rendering when there is none.
C6_MissingFieldsExact ==
    \A k \in 1..Len(trace) :
        LET m == CellsMissing(DataCells[k])
        IN /\ m # {} => /\ trace[k].outcome = "rejected"
                        /\ trace[k].missing = m
                        /\ trace[k].calls = 0
           /\ m = {} => Rendered(trace[k])

\* C9: every successful creation (201 with id, slug, link) is logged, never
\* treated as a failure; its entry carries the remote slug; the notes field
\* is empty when the remote slug is the requested one and otherwise is
\* non-empty and contains both slugs.
C9_SlugRenameNoted ==
    [][ (i' = i + 1 /\ Created201(response')) =>
          LET entry == log_file'.lines[Len(log_file'.lines)]
              requested == trace'[i'].slug
              remote == response'.body.slug
          IN /\ trace'[i'].outcome = "published"
             /\ Len(log_file'.lines) > Len(log_file.lines)
             /\ entry[2] = remote
             /\ remote = requested => entry[6] = <<>>
             /\ remote # requested =>
                    /\ entry[6] # <<>>
                    /\ Contains(entry[6], requested)
                    /\ Contains(entry[6], remote) ]_vars

\* a published row whose remote slug differs from the requested one
C9_Witness ==
    /\ i > 0 /\ trace[i].outcome = "published"
    /\ response.body.slug # trace[i].slug
    /\ log_file.lines[Len(log_file.lines)][6] # <<>>

----------------------------------------------------------------------------
(* Run logger: invocations of the program calling write_to_log             *)

\* the invocations of the program that share output_log.csv
Procs == {1, 2}

Entry(title, slug, notes) ==
    [title |-> title, slug |-> slug, status |-> <<"draft">>, url |-> <<"/">> \o slug,
     wp_id |-> <<"7">>, notes |-> notes]

\* the log_data values handed to write_to_log
LogEntries ==
    {Entry(<<"A">>, <<"a">>, <<>>),
     Entry(<<"B">>, <<"b", "-", "2">>, Notes(<<"b">>, <<"b", "-", "2">>))}

IdleProc == [pc |-> "idle", file_exists |-> FALSE, buf |-> <<>>, done |-> 0,
             log_data |-> Entry(<<>>, <<>>, <<>>)]

LogInit ==
    /\ csv = [exists |-> FALSE, headers |-> <<>>, rows |-> <<>>]
    /\ args = [limit |-> [given |-> FALSE, n |-> 0], dry_run |-> FALSE, publish |-> FALSE]
    /\ pc = "loop"
    /\ lines = <<>>
    /\ total_rows = 0
    /\ i = 0
    /\ response = NoCall
    /\ trace = <<>>
    /\ exit_code = -1
    /\ log_file = NoFile
    /\ log0 = log_file
    /\ procs = [p \in Procs |-> IdleProc]
    /\ written = <<>>
    /\ page = Idle

AllIdle == \A p \in Procs : procs[p].pc = "idle"

\* main reaches write_to_log(log_data)
Call(p, log_data) ==
    /\ procs[p].pc = "idle"
    /\ procs[p].done < MaxCalls
    /\ procs' = [procs EXCEPT ![p].pc = "check", ![p].log_data = log_data]
    /\ written' = Append(written, log_data)
    /\ UNCHANGED <<batchVars, log_file, page>>

\* the call starts while no other invocation is inside write_to_log
CallAlone(p) == AllIdle /\ \E log_data \in LogEntries : Call(p, log_data)

\* the call starts whatever the other invocations are doing
CallAnytime(p) == \E log_data \in LogEntries : Call(p, log_data)

\* file_exists = os.path.exists(log_file)
CheckExists(p) ==
    /\ procs[p].pc = "check"
    /\ procs' = [procs EXCEPT ![p].pc = "open", ![p].file_exists = PathExists(log_file)]
    /\ UNCHANGED <<batchVars, log_file, written, page>>

\* with open(log_file, 'a', newline='') as f
Open(p) ==
    /\ procs[p].pc = "open"
    /\ log_file' = OpenAppend(log_file)
    /\ procs' = [procs EXCEPT ![p].pc = "header", ![p].buf = <<>>]
    /\ UNCHANGED <<batchVars, written, page>>

\* if not file_exists: writer.writeheader()
Header(p) ==
    /\ procs[p].pc = "header"
    /\ procs' = [procs EXCEPT ![p].pc = "row",
                              ![p].buf = WriteHeader(procs[p].buf, procs[p].file_exists)]
    /\ UNCHANGED <<batchVars, log_file, written, page>>

\* writer.writerow(log_data)
Row(p) ==
    /\ procs[p].pc = "row"
    /\ procs' = [procs EXCEPT ![p].pc = "close",
                              ![p].buf = WriteRow(procs[p].buf, procs[p].log_data)]
    /\ UNCHANGED <<batchVars, log_file, written, page>>

\* the with block ends: the buffered lines are appended to the file
Close(p) ==
    /\ procs[p].pc = "close"
    /\ log_file' = CloseFile(log_file, procs[p].buf)
    /\ procs' = [procs EXCEPT ![p].pc = "idle", ![p].buf = <<>>, ![p].done = @ + 1]
    /\ UNCHANGED <<batchVars, written, page>>

NextLogSeq ==
    \E p \in Procs :
        \/ CallAlone(p)
        \/ CheckExists(p)
        \/ Open(p)
        \/ Header(p)
        \/ Row(p)
        \/ Close(p)

NextLogConc ==
    \E p \in Procs :
        \/ CallAnytime(p)
        \/ CheckExists(p)
        \/ Open(p)
        \/ Header(p)
        \/ Row(p)
        \/ Close(p)

\* write_to_log calls executed one after another, within one run and across runs
SpecLogSeq == LogInit /\ [][NextLogSeq]_vars

\* invocations of the program running at the same time
SpecLogConc == LogInit /\ [][NextLogConc]_vars

\* calls that have returned
Completed == procs[1].done + procs[2].done

\* how many times x occurs in the sequence s
Count(s, x) == Cardinality({k \in 1..Len(s) : s[k] = x})

\* C7: calls executed one after another on a log that did not exist leave,
\* after n >= 1 of them, the header row followed by the n data rows in call
\* order; the file is empty or absent before the first call returns, and a
\* call in progress has changed nothing of what the file held.
C7_HeaderOnceRowsInOrder ==
    /\ Len(written) \in {Completed, Completed + 1}
    /\ log_file.lines =
          IF Completed = 0 THEN <<>>
          ELSE <<HeaderLine>> \o [k \in 1..Completed |-> RowLine(written[k])]

\* three calls have returned, made by two different invocations
C7_Witness ==
    /\ AllIdle
    /\ procs[1].done >= 1 /\ procs[2].done >= 1
    /\ Len(log_file.lines) >= 4

\* C8: when invocations call write_to_log at the same time, once all calls
\* have returned the log has exactly one header row, as its first line, and
\* holds every written data row, one per call.
C8_OneHeaderAllRows ==
    (AllIdle /\ Len(written) >= 1) =>
        /\ log_file.lines[1] = HeaderLine
        /\ Count(log_file.lines, HeaderLine) = 1
        /\ Len(DataRows(log_file)) = Len(written)
        /\ \A e \in LogEntries : Count(log_file.lines, RowLine(e)) = Count(written, e)

----------------------------------------------------------------------------
(* Content renderer: create_page_content                                   *)

NL == <<"\n">>

\* get_service_image_url: a fixed URL
get_service_image_url(service, city) ==
    <<"http://localpageshub.local/wp-content/uploads/2025/04/images.jpeg">>

\* get_ai_content: the templated sentence of the content type, or the fallback
get_ai_content(content_type, service, city, neighborhood, price_from) ==
    CASE content_type = "intro" ->
            <<"Professional ">> \o service \o <<" services in ">> \o neighborhood
            \o <<", ">> \o city \o <<" starting from ">> \o price_from
            \o <<". Our experienced team provides fast and reliable solutions for all your needs.">>
      [] content_type = "expertise" ->
            <<"With years of experience serving ">> \o city \o <<" residents, our ">>
            \o service \o <<" experts are your trusted choice in ">> \o neighborhood
            \o <<". We combine local expertise with professional excellence to deliver outstanding results every time.">>
      [] content_type = "coverage" ->
            <<"Our service area includes all of ">> \o neighborhood
            \o <<" and surrounding ">> \o city
            \o <<" neighborhoods. We're strategically located to provide quick response times throughout the entire service area.">>
      [] content_type = "cta" ->
            <<"Ready to schedule your ">> \o service
            \o <<" service? Contact us now to get started with our professional team in ">>
            \o neighborhood \o <<". Call today for a free consultation!">>
      [] OTHER -> <<"[AI Content Placeholder]">>

OpenMarker(type) ==
    CASE type = "image" -> "<!-- wp:image -->"
      [] type = "paragraph" -> "<!-- wp:paragraph -->"
      [] type = "heading" -> "<!-- wp:heading -->"
      [] type = "list" -> "<!-- wp:list -->"

CloseMarker(type) ==
    CASE type = "image" -> "<!-- /wp:image -->"
      [] type = "paragraph" -> "<!-- /wp:paragraph -->"
      [] type = "heading" -> "<!-- /wp:heading -->"
      [] type = "list" -> "<!-- /wp:list -->"

\* one block of the template: opening comment, body lines, closing comment
Block(type, body) == <<OpenMarker(type)>> \o NL \o body \o NL \o <<CloseMarker(type)>>

Paragraph(text) == Block("paragraph", <<"<p>">> \o text \o <<"</p>">>)

Heading(text) == Block("heading", <<"<h2>">> \o text \o <<"</h2>">>)

ImageBlock(service, city) ==
    Block("image",
          <<"<figure class=\"wp-block-image\">">> \o NL
          \o <<"<img src=\"">> \o get_service_image_url(service, city) \o <<"\" alt=\"">>
          \o service \o <<" services in ">> \o city \o <<"\" />">> \o NL
          \o <<"</figure>">>)

ListBlock(price_from, neighborhood) ==
    Block("list",
          <<"<ul>">> \o NL
          \o <<"<li>Starting from ">> \o price_from \o <<"</li>">> \o NL
          \o <<"<li>Licensed and certified professionals</li>">> \o NL
          \o <<"<li>24/7 emergency service availability</li>">> \o NL
          \o <<"<li>Same-day appointments available</li>">> \o NL
          \o <<"<li>Serving ">> \o neighborhood \o <<" and surrounding areas</li>">> \o NL
          \o <<"<li>100% satisfaction guaranteed</li>">> \o NL
          \o <<"</ul>">>)

\* the template without its last block
ClosingBlockOmitted(neighborhood, city) == <<>>

ClosingBlock(neighborhood, city) ==
    Paragraph(<<"<em>*Service available in ">> \o neighborhood \o <<", ">> \o city
              \o <<" and surrounding areas. Prices may vary depending on service requirements.</em>">>)

create_page_content(service, city, neighborhood, price_from) ==
    LET intro == get_ai_content("intro", service, city, neighborhood, price_from)
        expertise == get_ai_content("expertise", service, city, neighborhood, price_from)
        coverage == get_ai_content("coverage", service, city, neighborhood, price_from)
        cta == get_ai_content("cta", service, city, neighborhood, price_from)
        content ==
            ImageBlock(service, city) \o NL \o NL
            \o Paragraph(intro) \o NL \o NL
            \o Heading(<<"Expert ">> \o service \o <<" Services in ">> \o neighborhood) \o NL \o NL
            \o Paragraph(expertise) \o NL \o NL
            \o Heading(<<"Why Choose Our Services">>) \o NL \o NL
            \o ListBlock(price_from, neighborhood) \o NL \o NL
            \o Heading(<<"Service Area Coverage">>) \o NL \o NL
            \o Paragraph(coverage) \o NL \o NL
            \o Heading(<<"Schedule Your Service Today">>) \o NL \o NL
            \o Paragraph(cta) \o NL \o NL
            \o ClosingBlock(neighborhood, city)
    IN Strip(content)

\* the field values given to the renderer: plain text, text with spaces, and
\* text that itself holds a block comment
FieldValues == {<<"a">>, <<"A", " ", "b">>, <<"<!-- wp:list -->">>}

ContentInit ==
    /\ csv = [exists |-> FALSE, headers |-> <<>>, rows |-> <<>>]
    /\ args = [limit |-> [given |-> FALSE, n |-> 0], dry_run |-> FALSE, publish |-> FALSE]
    /\ pc = "loop"
    /\ lines = <<>>
    /\ total_rows = 0
    /\ i = 0
    /\ response = NoCall
    /\ trace = <<>>
    /\ exit_code = -1
    /\ log_file = NoFile
    /\ log0 = log_file
    /\ procs = <<>>
    /\ written = <<>>
    /\ page \in [state : {"input"}, service : FieldValues, city : FieldValues,
                 neighborhood : FieldValues, price_from : FieldValues, content : {<<>>}]

\* content = create_page_content(service, city, neighborhood, price_from)
Render ==
    /\ page.state = "input"
    /\ page' = [page EXCEPT
                  !.state = "rendered",
                  !.content = create_page_content(page.service, page.city,
                                                  page.neighborhood, page.price_from)]
    /\ UNCHANGED <<batchVars, log_file, procs, written>>

NextContent == Render

SpecContent == ContentInit /\ [][NextContent]_vars

BlockTypes == {"image", "paragraph", "heading", "list"}

IsMarker(tok) == \E t \in BlockTypes : tok = OpenMarker(t) \/ tok = CloseMarker(t)

\* the document is exactly these blocks in this order: its block comments are
\* the opening and closing comment of each, in turn
HasBlocks(content, types) ==
    LET markers == SelectSeq(content, IsMarker)
    IN /\ Len(markers) = 2 * Len(types)
       /\ \A k \in 1..Len(types) :
            /\ markers[2 * k - 1] = OpenMarker(types[k])
            /\ markers[2 * k] = CloseMarker(types[k])

\* no field value holds a block comment
PlainFields ==
    \A f \in {page.service, page.city, page.neighborhood, page.price_from} :
        \A k \in 1..Len(f) : ~IsMarker(f[k])

====
